---- MODULE Spec2Model ----
(***************************************************************************)
(* A model of result_variants.py: the Result monad with its two variants   *)
(* Ok and Err, the combinators defined on them, and the lifting helper     *)
(* check_f.                                                                *)
(*                                                                         *)
(* Result instances are Python objects: they live in a heap, are named by  *)
(* their identity (their index in the heap), and carry a class and one     *)
(* slot, `value`.  A method that returns `self` returns the identity of    *)
(* the receiver, a method that calls Ok(...) or Err(...) allocates.        *)
(***************************************************************************)
EXTENDS Integers, Sequences, FiniteSets, TLC

\* The number of calls the caller makes in a run.
MaxCalls == 3
\* The plain integers the caller supplies are 0..MaxInt.
MaxInt == 1

VARIABLES
  heap,   \* the Result instances allocated so far: <<[cls, value], ...>>
  last,   \* the most recent call: what was called, on what, and how it ended
  prev,   \* the call before it
  ncalls  \* the number of calls made so far

vars == <<heap, last, prev, ncalls>>

-----------------------------------------------------------------------------
(* Python values.                                                          *)

NoneV == [k |-> "none"]
IntV(n) == [k |-> "int", n |-> n]
TupleV(a, b) == [k |-> "tuple", fst |-> a, snd |-> b]
Ref(i) == [k |-> "ref", id |-> i]
ExcV(name) == [k |-> "exc", name |-> name]

\* The faults the modelled functions raise.  ZeroDivisionError and TypeError
\* derive from Exception; SystemExit derives from BaseException only.
ExceptionNames == {"ZeroDivisionError", "TypeError"}
BaseOnlyNames == {"SystemExit"}

\* `except Exception` matches e.
IsException(e) == e.k = "exc" /\ e.name \in ExceptionNames

\* How a call ends: it returns a value or it raises.
Ret(v) == [kind |-> "return", val |-> v]
Raise(e) == [kind |-> "raise", val |-> e]

-----------------------------------------------------------------------------
(* The heap.                                                               *)

Objs(h) == 1..Len(h)

\* cls(value): a new instance; __init__ stores the value.
Ok_init(h, value) == Append(h, [cls |-> "Ok", value |-> value])

Err_init(h, value) == Append(h, [cls |-> "Err", value |-> value])

\* isinstance(v, ResultAbc)
IsResult(v) == v.k = "ref"

Ok_bool == TRUE

\* Err.__bool__ with the body of Ok.__bool__.
Err_bool_as_ok == TRUE

Err_bool == FALSE

\* bool(r): the discriminant query, dispatched on the class of the instance.
Truth(h, i) == IF h[i].cls = "Ok" THEN Ok_bool ELSE Err_bool

-----------------------------------------------------------------------------
(* The functions a caller passes to the combinators.                       *)

Fn(name) == [name |-> name, cap |-> 0]
RetFn(i) == [name |-> "ret", cap |-> i]
NoFn == Fn("none")

\* identity: lambda x: x          inc:  lambda x: x + 1
\* div0:     lambda x: 1 / 0      exit: lambda x: sys.exit()
\* Ok, Err:  the classes themselves, used as functions
\* ret:      lambda x: r, for an instance r the caller holds
\* The functions passed where a Callable[[T], Tm] is expected (fmap,
\* or_fmap, check_f) ...
PlainFns == {Fn(n) : n \in {"identity", "inc", "div0", "exit", "Ok"}}
\* ... and where a Callable[[T], Result[Tm, X]] is expected (bind, or_bind).
MonadFns(h) ==
  {Fn(n) : n \in {"Ok", "Err", "div0"}} \cup {RetFn(i) : i \in Objs(h)}

\* f(v) on heap h: the heap afterwards and how the call ended.
Call(h, f, v) ==
  CASE f.name = "identity" -> [heap |-> h, out |-> Ret(v)]
    [] f.name = "inc" ->
         IF v.k = "int" THEN [heap |-> h, out |-> Ret(IntV(v.n + 1))]
         ELSE [heap |-> h, out |-> Raise(ExcV("TypeError"))]
    [] f.name = "div0" -> [heap |-> h, out |-> Raise(ExcV("ZeroDivisionError"))]
    [] f.name = "exit" -> [heap |-> h, out |-> Raise(ExcV("SystemExit"))]
    [] f.name = "Ok" ->
         [heap |-> Ok_init(h, v), out |-> Ret(Ref(Len(h) + 1))]
    [] f.name = "Err" ->
         [heap |-> Err_init(h, v), out |-> Ret(Ref(Len(h) + 1))]
    [] f.name = "ret" -> [heap |-> h, out |-> Ret(Ref(f.cap))]

\* What a method call did: the heap afterwards, how it ended, and the calls
\* of the supplied function it made.
Done(h, out, calls) == [heap |-> h, out |-> out, calls |-> calls]

-----------------------------------------------------------------------------
(* class Ok                                                                *)

Ok_wrap(h, self, value) ==
  Done([h EXCEPT ![self].value = value], Ret(Ref(self)), <<>>)

Ok_unwrap(h, self) == Done(h, Ret(h[self].value), <<>>)

\* Ok.fmap storing f(self.value) in the receiver and returning the receiver.
Ok_fmap_in_place(h, self, f) ==
  LET c == Call(h, f, h[self].value)
      calls == <<[f |-> f, arg |-> h[self].value]>>
  IN  IF c.out.kind = "return"
      THEN Done([c.heap EXCEPT ![self].value = c.out.val], Ret(Ref(self)),
                calls)
      ELSE Done(c.heap, c.out, calls)

\* Ok.fmap without its try/except: a fault of f goes to the caller.
Ok_fmap_uncaught(h, self, f) ==
  LET c == Call(h, f, h[self].value)
      calls == <<[f |-> f, arg |-> h[self].value]>>
  IN  IF c.out.kind = "return"
      THEN Done(Ok_init(c.heap, c.out.val), Ret(Ref(Len(c.heap) + 1)), calls)
      ELSE Done(c.heap, c.out, calls)

\* try: return Ok(f(self.value))  except Exception as e: return Err(e)
Ok_fmap(h, self, f) ==
  LET c == Call(h, f, h[self].value)
      calls == <<[f |-> f, arg |-> h[self].value]>>
  IN  IF c.out.kind = "return"
      THEN Done(Ok_init(c.heap, c.out.val), Ret(Ref(Len(c.heap) + 1)), calls)
      ELSE IF IsException(c.out.val)
      THEN Done(Err_init(c.heap, c.out.val), Ret(Ref(Len(c.heap) + 1)), calls)
      ELSE Done(c.heap, c.out, calls)

\* return f(self.value)
Ok_bind(h, self, f) ==
  LET c == Call(h, f, h[self].value)
  IN  Done(c.heap, c.out, <<[f |-> f, arg |-> h[self].value]>>)

Ok_or_fmap(h, self, f) == Done(h, Ret(Ref(self)), <<>>)

Ok_or_bind(h, self, f) == Done(h, Ret(Ref(self)), <<>>)

\* return Ok((self.value, other.value))
Ok_join(h, self, other) ==
  Done(Ok_init(h, TupleV(h[self].value, h[other].value)),
       Ret(Ref(Len(h) + 1)), <<>>)

-----------------------------------------------------------------------------
(* class Err                                                               *)

Err_wrap(h, self, value) ==
  Done([h EXCEPT ![self].value = value], Ret(Ref(self)), <<>>)

\* Err.unwrap as Rust's unwrap: a fault instead of the contained error.
Err_unwrap_faults(h, self) == Done(h, Raise(ExcV("UnwrapOnFailure")), <<>>)

Err_unwrap(h, self) == Done(h, Ret(h[self].value), <<>>)

Err_fmap(h, self, f) == Done(h, Ret(Ref(self)), <<>>)

\* Err.bind with the body of Ok.bind: f is applied to the error.
Err_bind_applies(h, self, f) == Ok_bind(h, self, f)

Err_bind(h, self, f) == Done(h, Ret(Ref(self)), <<>>)

\* Err.or_bind wrapping what f returns in a new Err, as or_fmap does.
Err_or_bind_wraps(h, self, f) ==
  LET c == Call(h, f, h[self].value)
      calls == <<[f |-> f, arg |-> h[self].value]>>
  IN  IF c.out.kind = "return"
      THEN Done(Err_init(c.heap, c.out.val), Ret(Ref(Len(c.heap) + 1)), calls)
      ELSE Done(c.heap, c.out, calls)

\* return f(self.value)
Err_or_bind(h, self, f) ==
  LET c == Call(h, f, h[self].value)
  IN  Done(c.heap, c.out, <<[f |-> f, arg |-> h[self].value]>>)

\* Err.join with the pair the other way round.
Err_join_swapped(h, self, other) ==
  Done(Err_init(h, TupleV(h[other].value, h[self].value)),
       Ret(Ref(Len(h) + 1)), <<>>)

\* return Err((self.value, other.value))
Err_join(h, self, other) ==
  Done(Err_init(h, TupleV(h[self].value, h[other].value)),
       Ret(Ref(Len(h) + 1)), <<>>)

\* Err.or_fmap with the body of Ok.fmap: what f returns is wrapped in Ok.
Err_or_fmap_as_fmap(h, self, f) == Ok_fmap(h, self, f)

\* try: return Err(f(self.value))  except Exception as e: return Err(e)
Err_or_fmap(h, self, f) ==
  LET c == Call(h, f, h[self].value)
      calls == <<[f |-> f, arg |-> h[self].value]>>
  IN  IF c.out.kind = "return" \/ IsException(c.out.val)
      THEN Done(Err_init(c.heap, c.out.val), Ret(Ref(Len(c.heap) + 1)), calls)
      ELSE Done(c.heap, c.out, calls)

-----------------------------------------------------------------------------
(* class ResultAbc, the dispatch on the class of the receiver, check_f     *)

unwrap(h, self) ==
  IF h[self].cls = "Ok" THEN Ok_unwrap(h, self) ELSE Err_unwrap(h, self)

wrap(h, self, value) ==
  IF h[self].cls = "Ok" THEN Ok_wrap(h, self, value)
  ELSE Err_wrap(h, self, value)

fmap(h, self, f) ==
  IF h[self].cls = "Ok" THEN Ok_fmap(h, self, f) ELSE Err_fmap(h, self, f)

bind(h, self, f) ==
  IF h[self].cls = "Ok" THEN Ok_bind(h, self, f) ELSE Err_bind(h, self, f)

or_fmap(h, self, f) ==
  IF h[self].cls = "Ok" THEN Ok_or_fmap(h, self, f)
  ELSE Err_or_fmap(h, self, f)

or_bind(h, self, f) ==
  IF h[self].cls = "Ok" THEN Ok_or_bind(h, self, f)
  ELSE Err_or_bind(h, self, f)

join(h, self, other) ==
  IF h[self].cls = "Ok" THEN Ok_join(h, self, other)
  ELSE Err_join(h, self, other)

\* if isinstance(self, ResultAbc): return self.unwrap()  else: return self
\* The test is on self, which is always an instance of ResultAbc.
flatten(h, self) ==
  IF IsResult(Ref(self)) THEN unwrap(h, self)
  ELSE Done(h, Ret(Ref(self)), <<>>)

\* check_f with the fault wrapped in Ok instead of Err.
check_f_ok_only(h, f, a) ==
  LET c == Call(h, f, a)
      calls == <<[f |-> f, arg |-> a]>>
  IN  IF c.out.kind = "return" \/ IsException(c.out.val)
      THEN Done(Ok_init(c.heap, c.out.val), Ret(Ref(Len(c.heap) + 1)), calls)
      ELSE Done(c.heap, c.out, calls)

\* try: return Ok(f(*a, **kw))  except Exception as e: return Err(e)
check_f(h, f, a) ==
  LET c == Call(h, f, a)
      calls == <<[f |-> f, arg |-> a]>>
  IN  IF c.out.kind = "return"
      THEN Done(Ok_init(c.heap, c.out.val), Ret(Ref(Len(c.heap) + 1)), calls)
      ELSE IF IsException(c.out.val)
      THEN Done(Err_init(c.heap, c.out.val), Ret(Ref(Len(c.heap) + 1)), calls)
      ELSE Done(c.heap, c.out, calls)

-----------------------------------------------------------------------------
(* The caller: one action per call it can make.                            *)

\* The values a caller passes in.
Inputs == {IntV(n) : n \in 0..MaxInt}

Record(op, self, f, arg, other, r) ==
  [op |-> op, self |-> self, f |-> f, arg |-> arg, other |-> other,
   out |-> r.out, calls |-> r.calls]

\* The caller has calls left to make.
CanCall == ncalls < MaxCalls

\* A call and its effect on the heap.
Commit(op, self, f, arg, other, r) ==
  /\ ncalls' = ncalls + 1
  /\ heap' = r.heap
  /\ last' = Record(op, self, f, arg, other, r)
  /\ prev' = last

NoCall ==
  [op |-> "init", self |-> 0, f |-> NoFn, arg |-> NoneV, other |-> 0,
   out |-> Ret(NoneV), calls |-> <<>>]

Init ==
  /\ heap = <<>>
  /\ last = NoCall
  /\ prev = NoCall
  /\ ncalls = 0

NewOk ==
  /\ CanCall
  /\ \E v \in Inputs :
       Commit("Ok", 0, NoFn, v, 0,
              Done(Ok_init(heap, v), Ret(Ref(Len(heap) + 1)), <<>>))

NewErr ==
  /\ CanCall
  /\ \E v \in Inputs :
       Commit("Err", 0, NoFn, v, 0,
              Done(Err_init(heap, v), Ret(Ref(Len(heap) + 1)), <<>>))

Wrap ==
  /\ CanCall
  /\ \E self \in Objs(heap), v \in Inputs :
       Commit("wrap", self, NoFn, v, 0, wrap(heap, self, v))

Unwrap ==
  /\ CanCall
  /\ \E self \in Objs(heap) :
       Commit("unwrap", self, NoFn, NoneV, 0, unwrap(heap, self))

Fmap ==
  /\ CanCall
  /\ \E self \in Objs(heap), f \in PlainFns :
       Commit("fmap", self, f, NoneV, 0, fmap(heap, self, f))

Bind ==
  /\ CanCall
  /\ \E self \in Objs(heap), f \in MonadFns(heap) :
       Commit("bind", self, f, NoneV, 0, bind(heap, self, f))

OrFmap ==
  /\ CanCall
  /\ \E self \in Objs(heap), f \in PlainFns :
       Commit("or_fmap", self, f, NoneV, 0, or_fmap(heap, self, f))

OrBind ==
  /\ CanCall
  /\ \E self \in Objs(heap), f \in MonadFns(heap) :
       Commit("or_bind", self, f, NoneV, 0, or_bind(heap, self, f))

Join ==
  /\ CanCall
  /\ \E self \in Objs(heap), other \in Objs(heap) :
       Commit("join", self, NoFn, NoneV, other, join(heap, self, other))

Flatten ==
  /\ CanCall
  /\ \E self \in Objs(heap) :
       Commit("flatten", self, NoFn, NoneV, 0, flatten(heap, self))

CheckF ==
  /\ CanCall
  /\ \E f \in PlainFns, a \in Inputs :
       Commit("check_f", 0, f, a, 0, check_f(heap, f, a))

Next ==
  \/ NewOk \/ NewErr \/ Wrap \/ Unwrap \/ Fmap \/ Bind \/ OrFmap \/ OrBind
  \/ Join \/ Flatten \/ CheckF

Spec == Init /\ [][Next]_vars

-----------------------------------------------------------------------------
(* The claims.  In an action formula, heap is the heap before the call,    *)
(* heap' the heap after it, and last' the record of the call.              *)

\* C1, as stated: unwrap on a Success(v) returns v, and unwrap on a
\* Failure(e) ends in a fault and never returns a value to the caller.
C1_UnwrapFaultsOnFailure ==
  [][last'.op = "unwrap" =>
       IF heap[last'.self].cls = "Ok"
       THEN last'.out = Ret(heap[last'.self].value)
       ELSE last'.out.kind = "raise"]_vars

\* C1, amended: unwrap returns the contained value on either variant, v on
\* a Success(v) and e on a Failure(e); it raises no fault and changes no
\* instance.
C1_UnwrapReturnsValue ==
  [][last'.op = "unwrap" =>
       /\ last'.out = Ret(heap[last'.self].value)
       /\ heap' = heap]_vars

\* An unwrap of a Failure has returned the error it holds.
C1_Witness ==
  /\ last.op = "unwrap"
  /\ heap[last.self].cls = "Err"
  /\ last.out = Ret(heap[last.self].value)

\* The call returned a new instance of class cls holding value v, and left
\* every instance there was as it was.
ReturnsNew(cls, v) ==
  /\ last'.out.kind = "return"
  /\ IsResult(last'.out.val)
  /\ last'.out.val.id \notin Objs(heap)
  /\ heap'[last'.out.val.id] = [cls |-> cls, value |-> v]
  /\ \A i \in Objs(heap) : heap'[i] = heap[i]

\* The call returned its receiver, called nothing and changed nothing.
ReturnsSelf ==
  /\ last'.out = Ret(Ref(last'.self))
  /\ last'.calls = <<>>
  /\ heap' = heap

\* The call let the fault e go to its caller and built no Result.
Propagates(e) ==
  /\ last'.out = Raise(e)
  /\ \A i \in Objs(heap) : heap'[i] = heap[i]

\* The receiver of the call, as it was before the call.
OnOk(op) == last'.op = op /\ heap[last'.self].cls = "Ok"
OnErr(op) == last'.op = op /\ heap[last'.self].cls = "Err"

\* C2: flatten on a Result holding a Result of the same variant returns the
\* inner Result; flatten on a Result holding a value that is no Result
\* returns a Result equal to the receiver, not the bare value.
C2_FlattenIdentityOnPlainValue ==
  [][last'.op = "flatten" =>
       LET v == heap[last'.self].value
       IN  IF IsResult(v)
           THEN heap[v.id].cls = heap[last'.self].cls => last'.out = Ret(v)
           ELSE /\ last'.out.kind = "return"
                /\ IsResult(last'.out.val)
                /\ heap'[last'.out.val.id] = heap[last'.self]]_vars

\* C3, as stated: map on Success(v) returns Success(f(v)) when f returns and
\* a Failure carrying the fault when f raises, whatever the fault; the fault
\* never reaches the caller.
C3_MapCapturesEveryFault ==
  [][OnOk("fmap") =>
       LET c == Call(heap, last'.f, heap[last'.self].value)
       IN  ReturnsNew(IF c.out.kind = "return" THEN "Ok" ELSE "Err",
                      c.out.val)]_vars

\* C3, amended: map on Success(v) returns Success(f(v)) when f returns, and
\* a Failure carrying the fault when f raises a fault that derives from
\* Exception; a fault that derives from BaseException only (SystemExit)
\* goes to the caller.
C3_MapCapturesExceptions ==
  [][OnOk("fmap") =>
       LET c == Call(heap, last'.f, heap[last'.self].value)
       IN  /\ last'.calls = <<[f |-> last'.f, arg |-> heap[last'.self].value]>>
           /\ IF c.out.kind = "return" THEN ReturnsNew("Ok", c.out.val)
              ELSE IF IsException(c.out.val) THEN ReturnsNew("Err", c.out.val)
              ELSE Propagates(c.out.val)]_vars

\* A map on a Success whose function raised has returned a Failure that
\* carries the fault.
C3_Witness ==
  /\ last.op = "fmap"
  /\ heap[last.self].cls = "Ok"
  /\ last.f = Fn("div0")
  /\ last.out.kind = "return"
  /\ heap[last.out.val.id] = [cls |-> "Err", value |-> ExcV("ZeroDivisionError")]

\* or_else can recover: there are a function h and an error e with
\* Failure(e).or_else(h) a Success.
OrElseCanRecover ==
  \E e \in Inputs, f \in MonadFns(<<>>) :
    LET r == Err_or_bind(Err_init(<<>>, e), 1, f)
    IN  /\ r.out.kind = "return"
        /\ IsResult(r.out.val)
        /\ r.heap[r.out.val.id].cls = "Ok"

\* C4, as stated: map_err on Failure(e) returns a Failure, carrying g(e)
\* when g returns and the fault when g raises, whatever the fault; map_err
\* on Success(v) returns it with g not applied; or_else can recover.
C4_MapErrAlwaysFailure ==
  [][/\ OnErr("or_fmap") =>
          ReturnsNew("Err",
                     Call(heap, last'.f, heap[last'.self].value).out.val)
     /\ OnOk("or_fmap") => ReturnsSelf
     /\ OrElseCanRecover]_vars

\* C4, amended: map_err on Failure(e) never returns a Success: it returns a
\* Failure carrying g(e) when g returns, a Failure carrying the fault when g
\* raises a fault that derives from Exception, and lets a fault that derives
\* from BaseException only go to the caller; map_err on Success(v) returns
\* it with g not applied; or_else can recover.
C4_MapErrStaysFailure ==
  [][/\ OnErr("or_fmap") =>
          LET c == Call(heap, last'.f, heap[last'.self].value)
          IN  /\ last'.calls =
                   <<[f |-> last'.f, arg |-> heap[last'.self].value]>>
              /\ IF c.out.kind = "return" \/ IsException(c.out.val)
                 THEN ReturnsNew("Err", c.out.val)
                 ELSE Propagates(c.out.val)
     /\ OnOk("or_fmap") => ReturnsSelf
     /\ OrElseCanRecover]_vars

\* A map_err on a Failure whose function returned has returned a Failure
\* that carries what the function returned.
C4_Witness ==
  /\ last.op = "or_fmap"
  /\ heap[last.self] = [cls |-> "Err", value |-> IntV(0)]
  /\ last.f = Fn("inc")
  /\ last.out.kind = "return"
  /\ heap[last.out.val.id] = [cls |-> "Err", value |-> IntV(1)]

\* C9, as stated: check_f(f, a) returns Success(f(a)) when f returns and a
\* Failure carrying the fault when f raises, whatever the fault; it always
\* returns a Result.
C9_LiftCapturesEveryFault ==
  [][last'.op = "check_f" =>
       LET c == Call(heap, last'.f, last'.arg)
       IN  ReturnsNew(IF c.out.kind = "return" THEN "Ok" ELSE "Err",
                      c.out.val)]_vars

\* C9, amended: check_f(f, a) returns Success(f(a)) when f returns, and a
\* Failure carrying the fault when f raises a fault that derives from
\* Exception; a fault that derives from BaseException only goes to the
\* caller.
C9_LiftCapturesExceptions ==
  [][last'.op = "check_f" =>
       LET c == Call(heap, last'.f, last'.arg)
       IN  /\ last'.calls = <<[f |-> last'.f, arg |-> last'.arg]>>
           /\ IF c.out.kind = "return" THEN ReturnsNew("Ok", c.out.val)
              ELSE IF IsException(c.out.val) THEN ReturnsNew("Err", c.out.val)
              ELSE Propagates(c.out.val)]_vars

\* A check_f whose function divided by zero has returned a Failure that
\* carries the division fault.
C9_Witness ==
  /\ last.op = "check_f"
  /\ last.f = Fn("div0")
  /\ last.out.kind = "return"
  /\ heap[last.out.val.id] = [cls |-> "Err", value |-> ExcV("ZeroDivisionError")]

\* C5: map and and_then on Failure(e) return a Failure carrying exactly e,
\* and the function is never invoked.
C5_FailureShortCircuits ==
  [][OnErr("fmap") \/ OnErr("bind") =>
       /\ last'.out.kind = "return"
       /\ IsResult(last'.out.val)
       /\ heap'[last'.out.val.id] = heap[last'.self]
       /\ last'.calls = <<>>
       /\ heap' = heap]_vars

\* An and_then on a Failure has returned the Failure, after another call on
\* the success channel did.
C5_Witness ==
  /\ prev.op = "fmap"
  /\ last.op = "bind"
  /\ prev.out.kind = "return"
  /\ IsResult(prev.out.val)
  /\ last.self = prev.out.val.id
  /\ heap[last.self].cls = "Err"
  /\ last.out = Ret(Ref(last.self))

\* C6: and_then on Success(v) ends as f(v) ends and or_else on Failure(e) as
\* h(e) ends, with nothing wrapped around the Result the function returns;
\* and_then on a Failure and or_else on a Success return the receiver.
C6_BindReturnsFunctionResult ==
  [][/\ OnOk("bind") \/ OnErr("or_bind") =>
          LET c == Call(heap, last'.f, heap[last'.self].value)
          IN  last'.out = c.out /\ heap' = c.heap
     /\ OnErr("bind") \/ OnOk("or_bind") =>
          /\ last'.out.kind = "return"
          /\ IsResult(last'.out.val)
          /\ heap'[last'.out.val.id] = heap[last'.self]
          /\ heap' = heap]_vars

\* An or_else on a Failure(e) with the function Ok has returned Ok(e).
C6_Witness ==
  /\ last.op = "or_bind"
  /\ heap[last.self].cls = "Err"
  /\ last.f = Fn("Ok")
  /\ last.out.kind = "return"
  /\ heap[last.out.val.id] = [cls |-> "Ok", value |-> heap[last.self].value]

\* C7: no call changes the truth value of an instance: it is true for an
\* instance built as Ok and false for one built as Err, from construction
\* on; wrap replaces the value and keeps the variant.
C7_DiscriminantNeverChanges ==
  [][/\ \A i \in Objs(heap) : Truth(heap', i) = Truth(heap, i)
     /\ \A i \in Objs(heap') : Truth(heap', i) = (heap'[i].cls = "Ok")
     /\ last'.op = "Ok" => Truth(heap', last'.out.val.id)
     /\ last'.op = "Err" => ~Truth(heap', last'.out.val.id)
     /\ last'.op = "wrap" =>
          /\ heap'[last'.self].value = last'.arg
          /\ heap'[last'.self].cls = heap[last'.self].cls]_vars

\* A Failure that a combinator was called on has been rewrapped to hold
\* another value, and is still false.
C7_Witness ==
  /\ prev.op \in {"fmap", "bind", "or_fmap", "or_bind", "join", "flatten"}
  /\ last.op = "wrap"
  /\ last.self = prev.self
  /\ heap[last.self] = [cls |-> "Err", value |-> IntV(1)]
  /\ ~Truth(heap, last.self)

\* The pair of calls last, last': a combinator call that returned the
\* instance r2 from the receiver r, then a wrap.  A wrap on one of the two
\* leaves the value of the other as it was.
WrapKeepsApart(r, r2) ==
  /\ last'.self = r2 => heap'[r].value = heap[r].value
  /\ last'.self = r => heap'[r2].value = heap[r2].value

\* C8, as stated: every combinator call, the pass-through cases included,
\* returns a Result that does not share its value slot with the receiver: a
\* later wrap on either leaves the value of the other unchanged.  (Read in
\* the claim's favour: the supplied function, where it is one that returns
\* a Result, builds that Result itself.)
C8_NoCombinatorShares ==
  [][/\ last.op \in {"fmap", "bind", "or_fmap", "or_bind"}
     /\ last.f.name # "ret"
     /\ last.out.kind = "return"
     /\ IsResult(last.out.val)
     /\ last'.op = "wrap"
     => WrapKeepsApart(last.self, last.out.val.id)]_vars

\* C8, amended: map on a Success and map_err on a Failure return a new
\* Result, which shares its value slot with no instance there was: a later
\* wrap on it or on the receiver leaves the value of the other unchanged.
\* The pass-through cases (map and and_then on a Failure, map_err and
\* or_else on a Success) return the receiver itself, and and_then on a
\* Success and or_else on a Failure return the instance the function
\* returned.  A wrap changes the value of its receiver alone.
C8_AppliedCombinatorsDoNotShare ==
  [][/\ (OnOk("fmap") \/ OnErr("or_fmap")) /\ last'.out.kind = "return" =>
          /\ IsResult(last'.out.val)
          /\ last'.out.val.id \notin Objs(heap)
          /\ \A i \in Objs(heap) : heap'[i] = heap[i]
     /\ OnErr("fmap") \/ OnErr("bind") \/ OnOk("or_fmap") \/ OnOk("or_bind") =>
          last'.out = Ret(Ref(last'.self)) /\ heap' = heap
     /\ OnOk("bind") \/ OnErr("or_bind") =>
          last'.out = Call(heap, last'.f, heap[last'.self].value).out
     /\ last'.op = "wrap" =>
          /\ Len(heap') = Len(heap)
          /\ \A i \in Objs(heap) \ {last'.self} : heap'[i] = heap[i]
     /\ /\ \/ last.op = "fmap" /\ heap[last.self].cls = "Ok"
           \/ last.op = "or_fmap" /\ heap[last.self].cls = "Err"
        /\ last.out.kind = "return"
        /\ last'.op = "wrap"
        => /\ last.out.val.id # last.self
           /\ WrapKeepsApart(last.self, last.out.val.id)]_vars

\* A map on a Success returned a Result, that Result was rewrapped, and the
\* receiver holds another value than the Result now does.
C8_Witness ==
  /\ prev.op = "fmap"
  /\ prev.out.kind = "return"
  /\ heap[prev.self].cls = "Ok"
  /\ last.op = "wrap"
  /\ last.self = prev.out.val.id
  /\ last.self # prev.self
  /\ heap[last.self].value = last.arg
  /\ heap[prev.self].value # last.arg

\* C10: join of two Results of one variant returns a new Result of that
\* variant holding the pair (receiver's value, other's value), and changes
\* neither operand.
C10_JoinPairsInOrder ==
  [][last'.op = "join" /\ heap[last'.self].cls = heap[last'.other].cls =>
       ReturnsNew(heap[last'.self].cls,
                  TupleV(heap[last'.self].value, heap[last'.other].value))]_vars

\* A join of two Failures holding different errors has returned a Failure
\* holding the pair of them.
C10_Witness ==
  /\ last.op = "join"
  /\ heap[last.self].cls = "Err"
  /\ heap[last.other].cls = "Err"
  /\ heap[last.self].value # heap[last.other].value
  /\ last.out.kind = "return"
  /\ heap[last.out.val.id] =
       [cls |-> "Err",
        value |-> TupleV(heap[last.self].value, heap[last.other].value)]

====
